---- MODULE Spec2Model ----
(***************************************************************************)
(* Model of the input-derivation core of the rollup node:                  *)
(*   opnode/l2/input_derivation.go  (UnmarshalLogEvent, DeriveL1Info-      *)
(*   Deposit, CheckReceipts, DeriveUserDeposits, DeriveBlockInputs) and    *)
(*   the head watcher WatchHeadChanges (package eth).                      *)
(* Bytes are naturals 0..255, byte strings are sequences of bytes, a Go    *)
(* slice s[a:b] is Slice(s, a, b).  A nil pointer / nil big.Int is the     *)
(* empty sequence, a nil error is the string "nil".                        *)
(***************************************************************************)
EXTENDS Integers, Sequences, FiniteSets, TLC

VARIABLES
    ev,          \* decoder input: the *types.Log handed to UnmarshalLogEvent
    decRes,      \* decoder output: (dep, err) of the last UnmarshalLogEvent call
    block,       \* derivation input: the BlockInput view
    receipts,    \* derivation input: the ordered receipts
    encFail,     \* derivation input: index of the tx whose MarshalBinary fails (-1: none)
    depRes,      \* (out, err) returned by DeriveUserDeposits
    blkRes,      \* (attrs, err) returned by DeriveBlockInputs
    infoRes,     \* the DepositTx returned by DeriveL1InfoDeposit
    derPc,       \* derivation: "idle" before the call, then the name of the function called
    wstate,      \* head watcher: Subscribing / Active / Returning / Terminated / Failed
    headChanges, \* head watcher: the buffered header channel
    subHeld,     \* head watcher: upstream subscription obtained and not yet unsubscribed
    subErr,      \* head watcher: error pending on sub.Err() ("nil" when none)
    ctxErr,      \* head watcher: ctx.Err(); ctx.Done() is closed when it is not "nil"
    quit,        \* head watcher: the quit channel of event.NewSubscription is closed
    taken,       \* history: headers received from headChanges, in order
    delivered,   \* history: HeadSignals passed to fn, in order
    retErr,      \* head watcher: value returned by the producer function
    retCause,    \* history: the select case that made the producer return
    termCount,   \* history: number of return statements executed by the producer
    pushed       \* history: headers the source has sent on headChanges, in order

vars == <<ev, decRes, block, receipts, encFail, depRes, blkRes, infoRes, derPc, wstate, headChanges,
          subHeld, subErr, ctxErr, quit, taken, delivered, retErr, retCause,
          termCount, pushed>>

decVars == <<ev, decRes>>
derVars == <<block, receipts, encFail, depRes, blkRes, infoRes, derPc>>
watchVars == <<wstate, headChanges, subHeld, subErr, ctxErr, quit, taken, delivered,
               retErr, retCause, termCount, pushed>>

----------------------------------------------------------------------------
(* Bounds of the model *)

\* largest number of payload bytes following the six fixed 32-byte fields
MaxTail == 2
\* largest size of a block's receipt list: its receipts plus all their logs
MaxSize == 4
\* largest number of headers the head source sends
MaxHeaders == 2
\* largest header height
MaxHeight == 1

----------------------------------------------------------------------------
(* Byte strings *)

NoErr == "nil"
NilPtr == <<>>

Zeros(n) == [i \in 1..n |-> 0]

\* Go's s[a:b]
Slice(s, a, b) == SubSeq(s, a + 1, b)

\* big-endian encoding of n in w bytes (binary.BigEndian.PutUint64, big.Int.FillBytes)
RECURSIVE BigEndian(_, _)
BigEndian(n, w) == IF w = 0 THEN <<>> ELSE Append(BigEndian(n \div 256, w - 1), n % 256)

\* value of a big-endian byte string (only used on strings whose value is small)
RECURSIVE BytesToNat(_)
BytesToNat(s) ==
    IF s = <<>> THEN 0 ELSE BytesToNat(SubSeq(s, 1, Len(s) - 1)) * 256 + s[Len(s)]

IsZeroBytes(s) == \A i \in 1..Len(s) : s[i] = 0

\* a > b for big-endian byte strings of the same length
RECURSIVE BytesGT(_, _)
BytesGT(a, b) ==
    IF a = <<>> THEN FALSE
    ELSE IF Head(a) # Head(b) THEN Head(a) > Head(b)
    ELSE BytesGT(Tail(a), Tail(b))

\* big.Int.IsUint64 / uint256.Int.IsUint64 of a 32-byte big-endian word
IsUint64(word) == IsZeroBytes(SubSeq(word, 1, 24))

\* big.Int.Uint64 / uint256.Int.Uint64: the low 64 bits, kept as 8 big-endian bytes
Uint64(word) == SubSeq(word, 25, 32)

\* common.BytesToAddress of a 20-byte slice
BytesToAddress(b) == b

----------------------------------------------------------------------------
(* Protocol constants *)

\* crypto.Keccak256Hash("TransactionDeposited(address,address,uint256,uint256,uint256,bool,bytes)")
DepositEventABIHash ==
    <<38, 19, 122, 94, 52, 68, 111, 99, 170, 158, 162, 135, 151, 160, 231, 12,
      57, 135, 114, 9, 19, 135, 152, 152, 128, 45, 214, 11, 148, 70, 21, 173>>

\* 0xdeaddeaddeaddeaddeaddeaddeaddeaddead0001
DepositContractAddr ==
    <<222, 173, 222, 173, 222, 173, 222, 173, 222, 173,
      222, 173, 222, 173, 222, 173, 222, 173, 0, 1>>

\* crypto.Keccak256("setL1BlockValues(uint256 _number, uint256 _timestamp, uint256 _basefee, bytes32 _hash)")[:4]
L1InfoFuncBytes4 == <<140, 137, 195, 134>>

\* 0x4242424242424242424242424242424242424242
L1InfoPredeployAddr == [i \in 1..20 |-> 66]

\* gas allowance of the L1-info transaction
L1InfoGas == 99999999

\* types.ReceiptStatusSuccessful
ReceiptStatusSuccessful == 1

----------------------------------------------------------------------------
(* UnmarshalLogEvent *)

DecodeError(msg) == [dep |-> NilPtr, err |-> msg]

\* dep.Mint: a zero mint is represented as nil
MintOf(mintBytes) == IF IsZeroBytes(mintBytes) THEN NilPtr ELSE mintBytes

\* variant: the whole isCreation slot is tested instead of its last byte
ToOf_WholeSlot(data, to) == IF IsZeroBytes(Slice(data, 96, 128)) THEN to ELSE NilPtr

\* dep.To: set only when the last byte of the isCreation slot is zero
ToOf(data, to) == IF data[96 + 31 + 1] = 0 THEN to ELSE NilPtr

\* variant: the data-offset test is left out
BadDataOffset_Dropped(dataOffset) == FALSE

\* the data-offset test that rejects the log
BadDataOffset(dataOffset) == dataOffset = BigEndian(128, 32)

\* dataLenU64 > maxExpectedLen
DataTooLong(dataLenU64, maxExpectedLen) == BytesGT(dataLenU64, BigEndian(maxExpectedLen, 8))

UnmarshalLogEvent(blockNum, txIndex, log) ==
    IF Len(log.Topics) # 3 THEN DecodeError("expected 3 event topics")
    ELSE IF log.Topics[1] # DepositEventABIHash THEN DecodeError("invalid deposit event selector")
    ELSE IF Len(log.Data) < 6 * 32 THEN DecodeError("deposit event data too small")
    ELSE
      LET from == BytesToAddress(Slice(log.Topics[2], 12, 32))
          to == BytesToAddress(Slice(log.Topics[3], 12, 32))
          value == Slice(log.Data, 0, 32)
          mint == MintOf(Slice(log.Data, 32, 64))
          gas == Slice(log.Data, 64, 96)
      IN
      IF ~IsUint64(gas) THEN DecodeError("bad gas value")
      ELSE
        LET toPtr == ToOf(log.Data, to)
            dataOffset == Slice(log.Data, 128, 160)
        IN
        IF BadDataOffset(dataOffset) THEN DecodeError("incorrect data offset")
        ELSE
          LET dataLen == Slice(log.Data, 160, 192)
              offset == 192
          IN
          IF ~IsUint64(dataLen) THEN DecodeError("data too large")
          ELSE
            LET maxExpectedLen == Len(log.Data) - offset
                dataLenU64 == Uint64(dataLen)
            IN
            IF DataTooLong(dataLenU64, maxExpectedLen)
            THEN DecodeError("data length too long")
            ELSE
              [dep |-> << [BlockHeight |-> blockNum,
                           TransactionIndex |-> txIndex,
                           From |-> from,
                           To |-> toPtr,
                           Mint |-> mint,
                           Value |-> value,
                           Gas |-> Uint64(gas),
                           Data |-> Slice(log.Data, offset, offset + BytesToNat(dataLenU64))] >>,
               err |-> NoErr]

----------------------------------------------------------------------------
(* Inputs of the decoder *)

Word(n) == BigEndian(n, 32)
\* 2^64: the smallest word that does not fit in 64 bits
Word2p64 == [i \in 1..32 |-> IF i = 24 THEN 1 ELSE 0]
\* 2^64 - 1
WordMaxU64 == [i \in 1..32 |-> IF i <= 24 THEN 0 ELSE 255]
\* 2^56: fits in 64 bits, larger than any payload
Word2p56 == [i \in 1..32 |-> IF i = 25 THEN 1 ELSE 0]
\* 2^64 + 128: low limb 128, not equal to 128
Word2p64Plus128 == [i \in 1..32 |-> IF i = 24 THEN 1 ELSE IF i = 32 THEN 128 ELSE 0]
\* 2^248: a nonzero word whose last byte is zero
Word2p248 == [i \in 1..32 |-> IF i = 1 THEN 1 ELSE 0]

AddrA == [i \in 1..20 |-> 160 + i]
AddrB == [i \in 1..20 |-> 180 + i]
\* indexed address topics: 12 bytes of padding, 20 bytes of address
TopicA == Zeros(12) \o AddrA
TopicB == Zeros(12) \o AddrB
\* an address topic whose padding is not zero
TopicADirty == [i \in 1..12 |-> 255] \o AddrA
OtherEventHash == [i \in 1..32 |-> 17]

TopicLists ==
    { <<DepositEventABIHash, TopicA, TopicB>>,
      <<DepositEventABIHash, TopicB, TopicA>>,
      <<DepositEventABIHash, TopicADirty, TopicB>>,
      <<OtherEventHash, TopicA, TopicB>>,
      <<DepositEventABIHash, TopicA>>,
      <<DepositEventABIHash, TopicA, TopicB, TopicA>>,
      <<>> }

ValueWords == {Word(0), Word(5)}
MintWords == {Word(0), Word(9), Word2p64}
GasWords == {Word(21000), WordMaxU64, Word2p64}
FlagWords == {Word(0), Word(1), Word2p248}
OffsetWords == {Word(128), Word(192), Word2p64Plus128}
LenWords == {Word(n) : n \in 0..(MaxTail + 1)} \cup {Word2p56, Word2p64}
TailBytes(k) == [i \in 1..k |-> 200 + i]

Payload(value, mint, gas, flag, off, len, k) ==
    value \o mint \o gas \o flag \o off \o len \o TailBytes(k)

FullPayloads ==
    { Payload(v, m, g, f, o, l, k) :
        v \in ValueWords, m \in MintWords, g \in GasWords, f \in FlagWords,
        o \in OffsetWords, l \in LenWords, k \in 0..MaxTail }

\* payloads cut short of the six fixed fields
ShortPayloads ==
    { SubSeq(Payload(Word(5), Word(9), Word(21000), Word(0), Word(192), Word(0), 0), 1, n) :
        n \in {0, 160, 191} }

EvInputs ==
    { [Address |-> DepositContractAddr, Topics |-> t, Data |-> d] :
        t \in TopicLists, d \in FullPayloads \cup ShortPayloads }

BlockNums == {0, 5}
TxIndexes == {1, 2}

NotDecoded == [called |-> FALSE, blockNum |-> 0, txIndex |-> 0, dep |-> NilPtr, err |-> NoErr]
EmptyLog == [Address |-> DepositContractAddr, Topics |-> <<>>, Data |-> <<>>]

DecIdle == ev = EmptyLog /\ decRes = NotDecoded

\* a call UnmarshalLogEvent(bn, ti, ev)
CallUnmarshalLogEvent ==
    /\ ~decRes.called
    /\ \E bn \in BlockNums, ti \in TxIndexes :
         LET r == UnmarshalLogEvent(bn, ti, ev)
         IN decRes' = [called |-> TRUE, blockNum |-> bn, txIndex |-> ti,
                       dep |-> r.dep, err |-> r.err]
    /\ UNCHANGED <<ev, derVars, watchVars>>

----------------------------------------------------------------------------
(* DeriveL1InfoDeposit *)

\* variant: timestamp written before the number
L1InfoData_Swapped(blk) ==
    L1InfoFuncBytes4 \o BigEndian(blk.Time, 8) \o BigEndian(blk.Number, 8)
        \o BigEndian(blk.BaseFee, 32) \o blk.Hash

\* data := make([]byte, 4+8+8+32+32), filled field by field
L1InfoData(blk) ==
    [i \in 1..(4 + 8 + 8 + 32 + 32) |->
        IF i <= 4 THEN L1InfoFuncBytes4[i]
        ELSE IF i <= 12 THEN BigEndian(blk.Number, 8)[i - 4]
        ELSE IF i <= 20 THEN BigEndian(blk.Time, 8)[i - 12]
        ELSE IF i <= 52 THEN BigEndian(blk.BaseFee, 32)[i - 20]
        ELSE blk.Hash[i - 52]]

DeriveL1InfoDeposit(blk) ==
    [BlockHeight |-> blk.Number,
     TransactionIndex |-> 0,
     From |-> DepositContractAddr,
     To |-> L1InfoPredeployAddr,
     Mint |-> NilPtr,
     Value |-> Word(0),
     Gas |-> BigEndian(L1InfoGas, 8),
     Data |-> L1InfoData(blk)]

----------------------------------------------------------------------------
(* CheckReceipts *)

\* types.DeriveSha over the receipts in order: the commitment is modelled as a
\* collision-free digest of the ordered consensus content of the receipts
DeriveSha(rs) == <<"sha", [i \in 1..Len(rs) |-> <<rs[i].Status, rs[i].Logs>>]>>

\* variant: the commitment is not compared
CheckReceipts_Skipped(blk, rs) == TRUE

CheckReceipts(blk, rs) == blk.ReceiptHash = DeriveSha(rs)

----------------------------------------------------------------------------
(* DeriveUserDeposits *)

\* variant: failed receipts are scanned too
ReceiptKept_All(rec) == TRUE

\* receipts whose status is not successful are skipped
ReceiptKept(rec) == rec.Status = ReceiptStatusSuccessful

\* only logs of the deposit contract are decoded
IsDepositLog(log) == log.Address = DepositContractAddr

\* variant: the deposits decoded so far are returned with the error
DepositsError_Partial(out, err) == [out |-> out, err |-> "malformatted L1 deposit log: " \o err]

\* the return of DeriveUserDeposits on a decode error
DepositsError(out, err) == [out |-> NilPtr, err |-> "malformatted L1 deposit log: " \o err]

\* the transaction index handed to the decoder
NextTxIndex(out) == Len(out) + 1

\* the inner loop, from log i of one receipt
RECURSIVE ScanLogs(_, _, _, _)
ScanLogs(height, logs, i, out) ==
    IF i > Len(logs) THEN [out |-> out, err |-> NoErr]
    ELSE IF IsDepositLog(logs[i])
    THEN LET r == UnmarshalLogEvent(height, NextTxIndex(out), logs[i])
         IN IF r.err # NoErr THEN DepositsError(out, r.err)
            ELSE ScanLogs(height, logs, i + 1, Append(out, r.dep[1]))
    ELSE ScanLogs(height, logs, i + 1, out)

\* the outer loop, from receipt j
RECURSIVE ScanReceipts(_, _, _, _)
ScanReceipts(height, rs, j, out) ==
    IF j > Len(rs) THEN [out |-> out, err |-> NoErr]
    ELSE IF ~ReceiptKept(rs[j]) THEN ScanReceipts(height, rs, j + 1, out)
    ELSE LET r == ScanLogs(height, rs[j].Logs, 1, out)
         IN IF r.err # NoErr THEN r ELSE ScanReceipts(height, rs, j + 1, r.out)

DeriveUserDeposits(height, rs) == ScanReceipts(height, rs, 1, <<>>)

----------------------------------------------------------------------------
(* DeriveBlockInputs *)

\* types.NewTx(tx).MarshalBinary(): the opaque typed envelope of the transaction;
\* the call fails for the transaction whose index is fail (-1: for none)
MarshalBinary(tx, fail) ==
    IF tx.TransactionIndex = fail
    THEN [bytes |-> NilPtr, err |-> "encode"]
    ELSE [bytes |-> <<"deposit-tx", tx>>, err |-> NoErr]

BlockError(msg) == [attrs |-> NilPtr, err |-> msg]

\* variant: each encoded deposit is put in front of the list
RECURSIVE EncodeUserTxs_Prepend(_, _, _, _)
EncodeUserTxs_Prepend(userDeposits, i, encodedTxs, fail) ==
    IF i > Len(userDeposits) THEN [txs |-> encodedTxs, err |-> NoErr]
    ELSE LET e == MarshalBinary(userDeposits[i], fail)
         IN IF e.err # NoErr THEN [txs |-> NilPtr, err |-> "failed to encode user tx"]
            ELSE EncodeUserTxs_Prepend(userDeposits, i + 1, <<e.bytes>> \o encodedTxs, fail)

\* the encoding loop over the user deposits, from deposit i
RECURSIVE EncodeUserTxs(_, _, _, _)
EncodeUserTxs(userDeposits, i, encodedTxs, fail) ==
    IF i > Len(userDeposits) THEN [txs |-> encodedTxs, err |-> NoErr]
    ELSE LET e == MarshalBinary(userDeposits[i], fail)
         IN IF e.err # NoErr THEN [txs |-> NilPtr, err |-> "failed to encode user tx"]
            ELSE EncodeUserTxs(userDeposits, i + 1, Append(encodedTxs, e.bytes), fail)

DeriveBlockInputs(blk, rs, fail) ==
    IF ~CheckReceipts(blk, rs)
    THEN BlockError("receipts are not consistent with the block's receipts root")
    ELSE
      LET opaqueL1Tx == MarshalBinary(DeriveL1InfoDeposit(blk), fail)
      IN
      IF opaqueL1Tx.err # NoErr THEN BlockError("failed to encode L1 info tx")
      ELSE
        LET userDeposits == DeriveUserDeposits(blk.Number, rs)
        IN
        IF userDeposits.err # NoErr
        THEN BlockError("failed to derive user deposits: " \o userDeposits.err)
        ELSE
          LET enc == EncodeUserTxs(userDeposits.out, 1, <<opaqueL1Tx.bytes>>, fail)
          IN
          IF enc.err # NoErr THEN BlockError(enc.err)
          ELSE [attrs |-> << [Timestamp |-> blk.Time,
                              Random |-> blk.MixDigest,
                              SuggestedFeeRecipient |-> Zeros(20),
                              Transactions |-> enc.txs] >>,
                err |-> NoErr]

----------------------------------------------------------------------------
(* Inputs of the derivation *)

GoodLogA ==
    [Address |-> DepositContractAddr,
     Topics |-> <<DepositEventABIHash, TopicA, TopicB>>,
     Data |-> Payload(Word(5), Word(9), Word(21000), Word(0), Word(192), Word(1), 1)]
GoodLogB ==
    [Address |-> DepositContractAddr,
     Topics |-> <<DepositEventABIHash, TopicB, TopicA>>,
     Data |-> Payload(Word(0), Word(0), WordMaxU64, Word(1), Word(192), Word(0), 0)]
\* a deposit-contract log that the decoder rejects
BadLog ==
    [Address |-> DepositContractAddr,
     Topics |-> <<DepositEventABIHash, TopicA, TopicB>>,
     Data |-> Payload(Word(5), Word(9), Word2p64, Word(0), Word(192), Word(0), 0)]
\* a log of another contract, laid out like a deposit
ForeignLog == [GoodLogA EXCEPT !.Address = AddrA]

DeriveLogs == {GoodLogA, GoodLogB, BadLog, ForeignLog}

LogSeqs(n) == UNION { [1..k -> DeriveLogs] : k \in 0..n }

\* the lists of k receipts holding at most budget logs in all
RECURSIVE ReceiptListsOf(_, _)
ReceiptListsOf(k, budget) ==
    IF k = 0 THEN { <<>> }
    ELSE UNION { { <<[Status |-> s, Logs |-> ls]>> \o rest :
                     s \in {0, 1}, rest \in ReceiptListsOf(k - 1, budget - Len(ls)) } :
                 ls \in LogSeqs(budget) }

ReceiptLists == UNION { ReceiptListsOf(k, MaxSize - k) : k \in 0..MaxSize }

BlockViews ==
    { [Number |-> 100, Time |-> 1000, BaseFee |-> 7,
       Hash |-> [i \in 1..32 |-> 170], MixDigest |-> [i \in 1..32 |-> 77]],
      [Number |-> 0, Time |-> 65538, BaseFee |-> 1000000000,
       Hash |-> [i \in 1..32 |-> i], MixDigest |-> [i \in 1..32 |-> 0]] }

EmptyReceipt == [Status |-> ReceiptStatusSuccessful, Logs |-> <<>>]

\* the block view of b whose receipts commitment is that of rs
WithReceiptHash(b, rs) ==
    [Number |-> b.Number, Time |-> b.Time, BaseFee |-> b.BaseFee, Hash |-> b.Hash,
     MixDigest |-> b.MixDigest, ReceiptHash |-> DeriveSha(rs)]

EncFails == {-1, 0, 1}

NoDeposits == [out |-> NilPtr, err |-> NoErr]
NoAttrs == [attrs |-> NilPtr, err |-> NoErr]

DerIdle ==
    /\ receipts = <<>>
    /\ block = WithReceiptHash(CHOOSE b \in BlockViews : b.Number = 0, <<>>)
    /\ encFail = -1
    /\ depRes = NoDeposits
    /\ blkRes = NoAttrs
    /\ infoRes = NilPtr
    /\ derPc = "idle"

\* the receipts of one block; the block view and the encoder's outcome are
\* chosen when a function is called
DerInit ==
    /\ receipts \in ReceiptLists
    /\ block = WithReceiptHash(CHOOSE b \in BlockViews : b.Number = 0, <<>>)
    /\ encFail = -1
    /\ depRes = NoDeposits
    /\ blkRes = NoAttrs
    /\ infoRes = NilPtr
    /\ derPc = "idle"

\* a call DeriveL1InfoDeposit(block)
CallDeriveL1InfoDeposit ==
    /\ derPc = "idle"
    /\ \E b \in BlockViews :
         /\ block' = WithReceiptHash(b, receipts)
         /\ infoRes' = <<DeriveL1InfoDeposit(block')>>
    /\ derPc' = "DeriveL1InfoDeposit"
    /\ UNCHANGED <<receipts, encFail, depRes, blkRes, decVars, watchVars>>

\* a call DeriveUserDeposits(block.NumberU64(), receipts)
CallDeriveUserDeposits ==
    /\ derPc = "idle"
    /\ \E b \in BlockViews :
         /\ block' = WithReceiptHash(b, receipts)
         /\ depRes' = DeriveUserDeposits(block'.Number, receipts)
    /\ derPc' = "DeriveUserDeposits"
    /\ UNCHANGED <<receipts, encFail, blkRes, infoRes, decVars, watchVars>>

\* a call DeriveBlockInputs(block, receipts); the block commits either to the
\* receipts handed over or to another list
CallDeriveBlockInputs ==
    /\ derPc = "idle"
    /\ \E b \in BlockViews, f \in EncFails :
         \E committed \in {receipts, Append(receipts, EmptyReceipt)} :
            /\ block' = WithReceiptHash(b, committed)
            /\ encFail' = f
            /\ blkRes' = DeriveBlockInputs(block', receipts, f)
    /\ derPc' = "DeriveBlockInputs"
    /\ UNCHANGED <<receipts, depRes, infoRes, decVars, watchVars>>

----------------------------------------------------------------------------
(* WatchHeadChanges *)

\* capacity of the headChanges channel
ChanCap == 10

\* BlockID{}
ZeroBlockID == [Hash |-> 0, Number |-> 0]

\* variant: the parent keeps the height of the header
SignalOf_SameHeight(header) ==
    [Parent |-> IF header.Number > 0
                THEN [Hash |-> header.ParentHash, Number |-> header.Number]
                ELSE ZeroBlockID,
     Self |-> [Hash |-> header.Hash, Number |-> header.Number]]

\* the HeadSignal computed for a header received from headChanges
SignalOf(header) ==
    LET self == [Hash |-> header.Hash, Number |-> header.Number]
        parent == IF header.Number > 0
                  THEN [Hash |-> header.ParentHash, Number |-> header.Number - 1]
                  ELSE ZeroBlockID
    IN [Parent |-> parent, Self |-> self]

\* hashes are small numbers, 0 is the zero hash
HeaderHashes == {1, 2}
ParentHashes == {0, 1}
Headers == [Hash : HeaderHashes, ParentHash : ParentHashes, Number : 0..MaxHeight]
SourceErrors == {"EOF", "connection reset"}
ContextErrors == {"context canceled", "context deadline exceeded"}

WatchIdle ==
    /\ wstate = "Idle"
    /\ headChanges = <<>>
    /\ subHeld = FALSE
    /\ subErr = NoErr
    /\ ctxErr = NoErr
    /\ quit = FALSE
    /\ taken = <<>>
    /\ delivered = <<>>
    /\ retErr = NoErr
    /\ retCause = "none"
    /\ termCount = 0
    /\ pushed = <<>>

\* WatchHeadChanges has been called: the channel is made, nothing is subscribed yet
WatchInit ==
    /\ wstate = "Subscribing"
    /\ headChanges = <<>>
    /\ subHeld = FALSE
    /\ subErr = NoErr
    /\ ctxErr = NoErr
    /\ quit = FALSE
    /\ taken = <<>>
    /\ delivered = <<>>
    /\ retErr = NoErr
    /\ retCause = "none"
    /\ termCount = 0
    /\ pushed = <<>>

\* src.SubscribeNewHead succeeds; event.NewSubscription starts the producer
SubscribeOk ==
    /\ wstate = "Subscribing"
    /\ subHeld' = TRUE
    /\ wstate' = "Active"
    /\ UNCHANGED <<headChanges, subErr, ctxErr, quit, taken, delivered, retErr, retCause,
                   termCount, pushed, decVars, derVars>>

\* src.SubscribeNewHead fails: WatchHeadChanges returns (nil, err), no producer runs
SubscribeFail ==
    /\ wstate = "Subscribing"
    /\ \E e \in SourceErrors : retErr' = e
    /\ wstate' = "Failed"
    /\ UNCHANGED <<headChanges, subHeld, subErr, ctxErr, quit, taken, delivered, retCause,
                   termCount, pushed, decVars, derVars>>

\* the head source sends a header on the channel it was subscribed with
SourcePush ==
    /\ subHeld
    /\ Len(headChanges) < ChanCap
    /\ Len(pushed) < MaxHeaders
    /\ \E h \in Headers :
         /\ headChanges' = Append(headChanges, h)
         /\ pushed' = Append(pushed, h)
    /\ UNCHANGED <<wstate, subHeld, subErr, ctxErr, quit, taken, delivered, retErr, retCause,
                   termCount, decVars, derVars>>

\* the upstream subscription fails: an error becomes ready on sub.Err()
SourceError ==
    /\ subHeld
    /\ subErr = NoErr
    /\ \E e \in SourceErrors : subErr' = e
    /\ UNCHANGED <<wstate, headChanges, subHeld, ctxErr, quit, taken, delivered, retErr,
                   retCause, termCount, pushed, decVars, derVars>>

\* the caller cancels ctx, or its deadline passes
CtxCancel ==
    /\ wstate \in {"Subscribing", "Active", "Returning", "Terminated"}
    /\ ctxErr = NoErr
    /\ \E e \in ContextErrors : ctxErr' = e
    /\ UNCHANGED <<wstate, headChanges, subHeld, subErr, quit, taken, delivered, retErr,
                   retCause, termCount, pushed, decVars, derVars>>

\* the caller unsubscribes the returned subscription: quit is closed
Unsubscribe ==
    /\ wstate \in {"Active", "Returning", "Terminated"}
    /\ ~quit
    /\ quit' = TRUE
    /\ UNCHANGED <<wstate, headChanges, subHeld, subErr, ctxErr, taken, delivered, retErr,
                   retCause, termCount, pushed, decVars, derVars>>

\* case header := <-headChanges
RecvHeader ==
    /\ wstate = "Active"
    /\ headChanges # <<>>
    /\ headChanges' = Tail(headChanges)
    /\ taken' = Append(taken, Head(headChanges))
    /\ delivered' = Append(delivered, SignalOf(Head(headChanges)))
    /\ UNCHANGED <<wstate, subHeld, subErr, ctxErr, quit, retErr, retCause, termCount,
                   pushed, decVars, derVars>>

\* case err := <-sub.Err(): return err
RecvSubErr ==
    /\ wstate = "Active"
    /\ subErr # NoErr
    /\ retErr' = subErr
    /\ subErr' = NoErr
    /\ retCause' = "error"
    /\ termCount' = termCount + 1
    /\ wstate' = "Returning"
    /\ UNCHANGED <<headChanges, subHeld, ctxErr, quit, taken, delivered, pushed,
                   decVars, derVars>>

\* variant: cancellation returns nil
RecvCtxDone_Nil ==
    /\ wstate = "Active"
    /\ ctxErr # NoErr
    /\ retErr' = NoErr
    /\ retCause' = "cancel"
    /\ termCount' = termCount + 1
    /\ wstate' = "Returning"
    /\ UNCHANGED <<headChanges, subHeld, subErr, ctxErr, quit, taken, delivered, pushed,
                   decVars, derVars>>

\* case <-ctx.Done(): return ctx.Err()
RecvCtxDone ==
    /\ wstate = "Active"
    /\ ctxErr # NoErr
    /\ retErr' = ctxErr
    /\ retCause' = "cancel"
    /\ termCount' = termCount + 1
    /\ wstate' = "Returning"
    /\ UNCHANGED <<headChanges, subHeld, subErr, ctxErr, quit, taken, delivered, pushed,
                   decVars, derVars>>

\* case <-quit: return nil
RecvQuit ==
    /\ wstate = "Active"
    /\ quit
    /\ retErr' = NoErr
    /\ retCause' = "quit"
    /\ termCount' = termCount + 1
    /\ wstate' = "Returning"
    /\ UNCHANGED <<headChanges, subHeld, subErr, ctxErr, quit, taken, delivered, pushed,
                   decVars, derVars>>

\* variant: the producer exits without unsubscribing
DeferredUnsubscribe_Skipped ==
    /\ wstate = "Returning"
    /\ wstate' = "Terminated"
    /\ UNCHANGED <<headChanges, subHeld, subErr, ctxErr, quit, taken, delivered, retErr,
                   retCause, termCount, pushed, decVars, derVars>>

\* defer sub.Unsubscribe() runs, then the producer function exits
DeferredUnsubscribe ==
    /\ wstate = "Returning"
    /\ subHeld' = FALSE
    /\ wstate' = "Terminated"
    /\ UNCHANGED <<headChanges, subErr, ctxErr, quit, taken, delivered, retErr, retCause,
                   termCount, pushed, decVars, derVars>>

----------------------------------------------------------------------------
(* Specifications *)

\* the decoder applied to one log
InitDecode == ev \in EvInputs /\ decRes = NotDecoded /\ DerIdle /\ WatchIdle
NextDecode == CallUnmarshalLogEvent
SpecDecode == InitDecode /\ [][NextDecode]_vars

\* one derivation call on one block and its receipts
InitDerive == DerInit /\ DecIdle /\ WatchIdle
NextDerive ==
    \/ CallDeriveL1InfoDeposit
    \/ CallDeriveUserDeposits
    \/ CallDeriveBlockInputs
SpecDerive == InitDerive /\ [][NextDerive]_vars

\* one lifetime of the head watcher
InitWatch == WatchInit /\ DecIdle /\ DerIdle
NextWatch ==
    \/ SubscribeOk
    \/ SubscribeFail
    \/ SourcePush
    \/ SourceError
    \/ CtxCancel
    \/ Unsubscribe
    \/ RecvHeader
    \/ RecvSubErr
    \/ RecvCtxDone
    \/ RecvQuit
    \/ DeferredUnsubscribe
SpecWatch == InitWatch /\ [][NextWatch]_vars

----------------------------------------------------------------------------
(* Properties of the decoder (SpecDecode) *)

\* the six fixed fields of a payload of at least 192 bytes
GasField(d) == SubSeq(d, 65, 96)
FlagByte(d) == d[128]
OffsetField(d) == SubSeq(d, 129, 160)
LenField(d) == SubSeq(d, 161, 192)

\* the field is a number below 2^64
Fits64(word) == \A i \in 1..24 : word[i] = 0
\* the field, below 2^64, is larger than n (n < 2^24)
Exceeds(word, n) ==
    \/ \E i \in 25..29 : word[i] # 0
    \/ word[30] * 65536 + word[31] * 256 + word[32] > n

Malformed(log) ==
    \/ Len(log.Topics) # 3
    \/ log.Topics[1] # DepositEventABIHash
    \/ Len(log.Data) < 192
    \/ ~Fits64(GasField(log.Data))
    \/ OffsetField(log.Data) = Zeros(31) \o <<128>>
    \/ ~Fits64(LenField(log.Data))
    \/ Exceeds(LenField(log.Data), Len(log.Data) - 192)

\* C8: a log with a topic count other than 3, a wrong topic[0], a payload under
\* 192 bytes, a gas over 64 bits, a data-offset of 128, or a data-length over
\* 64 bits or over the bytes left after the fixed fields is rejected: an error
\* and no DepositTx.
C8_MalformedRejected ==
    decRes.called /\ Malformed(ev) => decRes.err # NoErr /\ decRes.dep = NilPtr

\* a log whose only defect is the data-offset of 128 has been rejected
C8_Witness ==
    /\ decRes.called
    /\ Len(ev.Topics) = 3 /\ ev.Topics[1] = DepositEventABIHash
    /\ Len(ev.Data) >= 192
    /\ Fits64(GasField(ev.Data)) /\ Fits64(LenField(ev.Data))
    /\ ~Exceeds(LenField(ev.Data), Len(ev.Data) - 192)
    /\ OffsetField(ev.Data) = Zeros(31) \o <<128>>
    /\ decRes.err = "incorrect data offset"

----------------------------------------------------------------------------
(* Properties of the derivation (SpecDerive) *)

\* the layout of an L1-info payload d of the block
L1InfoLayout(d) ==
    /\ SubSeq(d, 1, 4) = L1InfoFuncBytes4
    /\ BytesToNat(SubSeq(d, 5, 12)) = block.Number
    /\ BytesToNat(SubSeq(d, 13, 20)) = block.Time
    /\ BytesToNat(SubSeq(d, 21, 52)) = block.BaseFee
    /\ SubSeq(d, 53, 84) = block.Hash

IsDeposit(log) == log.Address = DepositContractAddr
IsSuccess(rec) == rec.Status = 1

\* the deposit-contract logs of the successful receipts, in receipt order and
\* in log order within a receipt
RECURSIVE DepositLogs(_)
DepositLogs(rs) ==
    IF rs = <<>> THEN <<>>
    ELSE (IF IsSuccess(Head(rs)) THEN SelectSeq(Head(rs).Logs, IsDeposit) ELSE <<>>)
         \o DepositLogs(Tail(rs))

\* the deposit that log number i of those logs decodes to
DecodedAt(i) == UnmarshalLogEvent(block.Number, i, DepositLogs(receipts)[i])

\* some deposit-contract log of a successful receipt does not decode
HasMalformedDeposit ==
    \E i \in 1..Len(DepositLogs(receipts)) : DecodedAt(i).err # NoErr

\* C4: on success DeriveUserDeposits returns exactly the deposits decoded from
\* the deposit-contract logs of successful receipts, in encounter order, with
\* TransactionIndex 1..N; logs of failed receipts are never included.
C4_UserDeposits ==
    derPc = "DeriveUserDeposits" /\ depRes.err = NoErr =>
        /\ Len(depRes.out) = Len(DepositLogs(receipts))
        /\ \A i \in 1..Len(depRes.out) :
              /\ depRes.out[i] = DecodedAt(i).dep[1]
              /\ depRes.out[i].TransactionIndex = i
        /\ (Len(receipts) = 2
               /\ IsSuccess(receipts[1]) /\ SelectSeq(receipts[1].Logs, IsDeposit) = <<>>
               /\ receipts[2] = [Status |-> 0, Logs |-> <<GoodLogA>>]
             => depRes.out = <<>>)

\* a failed receipt with a well-formed deposit log, then a successful one with
\* another: only the second log is returned, with index 1
C4_Witness ==
    /\ derPc = "DeriveUserDeposits" /\ depRes.err = NoErr
    /\ receipts = << [Status |-> 0, Logs |-> <<GoodLogA>>],
                     [Status |-> 1, Logs |-> <<GoodLogB>>] >>
    /\ Len(depRes.out) = 1
    /\ depRes.out[1].TransactionIndex = 1
    /\ depRes.out[1].From = AddrB

\* C5: returned PayloadAttributes hold N+1 transactions, N the number of
\* derived user deposits: first the encoded L1-info transaction (index 0),
\* then the encoded user deposits in encounter order; with no deposit, the
\* L1-info transaction alone.
C5_Transactions ==
    derPc = "DeriveBlockInputs" /\ blkRes.err = NoErr =>
        LET txs == blkRes.attrs[1].Transactions
            n == Len(DepositLogs(receipts))
        IN /\ Len(txs) = n + 1
           /\ txs[1][2].TransactionIndex = 0
           /\ txs[1][2].From = DepositContractAddr
           /\ txs[1][2].To = L1InfoPredeployAddr
           /\ Len(txs[1][2].Data) = 84 /\ L1InfoLayout(txs[1][2].Data)
           /\ \A i \in 1..n : txs[i + 1] = <<"deposit-tx", DecodedAt(i).dep[1]>>

\* a block with two deposits has been derived
C5_Witness ==
    /\ derPc = "DeriveBlockInputs" /\ blkRes.err = NoErr
    /\ Len(DepositLogs(receipts)) = 2
    /\ DepositLogs(receipts)[1] # DepositLogs(receipts)[2]
    /\ Len(blkRes.attrs[1].Transactions) = 3

\* C6: when the receipts do not reproduce the block's commitment,
\* DeriveBlockInputs returns the integrity-mismatch error and no
\* PayloadAttributes, whatever else is wrong with the receipts or the encoder.
C6_IntegrityFirst ==
    derPc = "DeriveBlockInputs" /\ block.ReceiptHash # DeriveSha(receipts) =>
        /\ blkRes.err = "receipts are not consistent with the block's receipts root"
        /\ blkRes.attrs = NilPtr

\* inconsistent receipts holding a malformed deposit log, and a failing
\* encoder, reported as an integrity mismatch
C6_Witness ==
    /\ derPc = "DeriveBlockInputs"
    /\ block.ReceiptHash # DeriveSha(receipts)
    /\ HasMalformedDeposit
    /\ encFail = 0
    /\ blkRes.err = "receipts are not consistent with the block's receipts root"

\* C7: a deposit-contract log of a successful receipt that does not decode
\* makes DeriveUserDeposits return an error and no list, and DeriveBlockInputs
\* an error and no PayloadAttributes; whenever either returns an error its
\* result is absent.
C7_AllOrNothing ==
    /\ derPc = "DeriveUserDeposits" =>
          /\ HasMalformedDeposit => depRes.err # NoErr
          /\ depRes.err # NoErr => depRes.out = NilPtr
    /\ derPc = "DeriveBlockInputs" =>
          /\ HasMalformedDeposit => blkRes.err # NoErr
          /\ blkRes.err # NoErr => blkRes.attrs = NilPtr
          /\ blkRes.err = NoErr => Len(blkRes.attrs) = 1

\* a deposit was decoded before the malformed one: nothing is returned
C7_Witness ==
    /\ derPc = "DeriveUserDeposits"
    /\ Len(DepositLogs(receipts)) >= 2
    /\ DecodedAt(1).err = NoErr
    /\ DecodedAt(2).err # NoErr
    /\ depRes.err # NoErr
    /\ depRes.out = NilPtr

\* the L1-info payloads in the state: the one DeriveL1InfoDeposit returned and
\* the one inside the first transaction of returned PayloadAttributes
L1InfoPayloads ==
    (IF derPc = "DeriveL1InfoDeposit" THEN {infoRes[1].Data} ELSE {})
    \cup (IF derPc = "DeriveBlockInputs" /\ blkRes.err = NoErr
          THEN {blkRes.attrs[1].Transactions[1][2].Data} ELSE {})

\* C10 (as stated): the L1-info payload is 88 bytes, selector + number +
\* timestamp + base fee + hash, whatever the receipts.
C10_Original == \A d \in L1InfoPayloads : Len(d) = 88 /\ L1InfoLayout(d)

\* C10 (amended): the L1-info payload is 84 bytes: 4-byte selector, 8-byte
\* big-endian number, 8-byte big-endian timestamp, 32-byte big-endian base fee,
\* 32-byte hash, whatever the receipts.
C10_L1InfoPayload == \A d \in L1InfoPayloads : Len(d) = 84 /\ L1InfoLayout(d)

\* the payload for number=100, timestamp=1000, baseFee=7, with receipts present
C10_Witness ==
    /\ derPc = "DeriveL1InfoDeposit"
    /\ block.Number = 100 /\ block.Time = 1000 /\ block.BaseFee = 7
    /\ receipts # <<>>
    /\ Len(infoRes[1].Data) = 84
    /\ infoRes[1].Data[19] = 3 /\ infoRes[1].Data[20] = 232

----------------------------------------------------------------------------
(* Properties of the head watcher (SpecWatch) *)

\* signal s is the one due for header h
SignalFor(h, s) ==
    /\ s.Self = [Hash |-> h.Hash, Number |-> h.Number]
    /\ h.Number > 0 => s.Parent = [Hash |-> h.ParentHash, Number |-> h.Number - 1]
    /\ h.Number = 0 => s.Parent = ZeroBlockID
    /\ s.Self.Number > 0 => s.Self.Number = s.Parent.Number + 1

\* the callbacks follow the headers taken from the channel one for one, and
\* the headers are taken in the order the source sent them
InArrivalOrder ==
    /\ Len(delivered) = Len(taken)
    /\ taken \o headChanges = pushed
    /\ \A i \in 1..Len(taken) : SignalFor(taken[i], delivered[i])

\* C1 (as stated): one callback per header taken, in arrival order, with
\* Self = {hash, height}, Parent = {parentHash, height-1} for height > 0, and
\* Parent the zero-value BlockID exactly when height = 0.
C1_Original ==
    /\ InArrivalOrder
    /\ \A i \in 1..Len(delivered) :
          (delivered[i].Parent = ZeroBlockID) <=> (taken[i].Number = 0)

\* C1 (amended): one callback per header taken, in arrival order, with
\* Self = {hash, height}, Parent = {parentHash, height-1} for height > 0 and
\* Parent the zero-value BlockID for height = 0; a Parent equal to the zero
\* value comes from height 0 or from a height-1 header whose parentHash is the
\* zero hash.
C1_HeadSignals ==
    /\ InArrivalOrder
    /\ \A i \in 1..Len(delivered) :
          (delivered[i].Parent = ZeroBlockID) <=>
              \/ taken[i].Number = 0
              \/ taken[i].Number = 1 /\ taken[i].ParentHash = 0

\* two headers delivered, the first at height > 0 and the second at height 0
C1_Witness ==
    /\ Len(delivered) = 2
    /\ taken[1].Number > 0 /\ taken[1].ParentHash # 0
    /\ taken[2].Number = 0
    /\ delivered[1].Parent.Number = taken[1].Number - 1
    /\ delivered[2].Parent = ZeroBlockID

\* C2: the watcher is never Terminated with its upstream subscription held.
C2_Released == wstate = "Terminated" => ~subHeld

\* the watcher has terminated on a cancellation, after subscribing
C2_Witness == wstate = "Terminated" /\ retCause = "cancel" /\ ~subHeld

\* what one step of a watcher lifetime may do: move along Subscribing -> Active
\* -> Returning -> Terminated (or Subscribing -> Failed when no watcher starts),
\* return once with the value its select case dictates, and keep that value
C3_Step ==
    /\ wstate' # wstate =>
          <<wstate, wstate'>> \in { <<"Subscribing", "Active">>, <<"Active", "Returning">>,
                                    <<"Returning", "Terminated">>, <<"Subscribing", "Failed">> }
    /\ wstate = "Active" /\ wstate' = "Returning" =>
          /\ termCount' = termCount + 1
          /\ \/ retCause' = "error" /\ subErr # NoErr /\ retErr' = subErr
             \/ retCause' = "cancel" /\ ctxErr # NoErr /\ retErr' = ctxErr
             \/ retCause' = "quit" /\ quit /\ retErr' = NoErr
    /\ ~(wstate = "Active" /\ wstate' = "Returning") => termCount' = termCount
    /\ wstate \in {"Returning", "Terminated"} => retErr' = retErr /\ retCause' = retCause
    /\ wstate' = "Terminated" => termCount' = 1

\* C3: a watcher goes Subscribing -> Active -> Terminated, returns exactly
\* once, and returns the upstream error on an upstream error, ctx.Err() on a
\* cancellation and nil on quit; what it returned never changes afterwards.
C3_Lifecycle == [][C3_Step]_vars

\* the watcher has terminated cleanly on quit while ctx was cancelled later
C3_Witness ==
    /\ wstate = "Terminated" /\ termCount = 1
    /\ retCause = "quit" /\ retErr = NoErr
    /\ ctxErr # NoErr

====
